---- MODULE Spec2Model ----
(***************************************************************************)
(* A model of src/sgf_tree.ts (class SgfTree): the SGF scanner, the node   *)
(* chain expander, the node property parser, the serializer and the        *)
(* coordinate-addressed tree editor.                                       *)
(*                                                                         *)
(* A string is a sequence of one-character strings.  The heap is a         *)
(* sequence of node records; a node reference is its index, and 0 is the   *)
(* JavaScript value undefined (no node).                                   *)
(***************************************************************************)
EXTENDS Integers, Sequences, FiniteSets, TLC

VARIABLES sgf, i, nodes, currentTree, currentString, pc, lastOp, edits

vars == <<sgf, i, nodes, currentTree, currentString, pc, lastOp, edits>>

(***************************************************************************)
(* Strings                                                                 *)
(***************************************************************************)

\* JavaScript's undefined where a string is expected: no string over the
\* one-character alphabet equals it.
Undefined == <<"undefined">>

\* No node (undefined) where a node reference is expected.
NoNode == 0

RECURSIVE Cat(_)
Cat(ss) == IF ss = <<>> THEN <<>> ELSE Head(ss) \o Cat(Tail(ss))

RECURSIVE Join(_, _)
Join(ss, sep) ==
  IF ss = <<>> THEN <<>>
  ELSE IF Len(ss) = 1 THEN ss[1]
  ELSE ss[1] \o sep \o Join(Tail(ss), sep)

RECURSIVE Filter(_, _)
Filter(s, c) ==
  IF s = <<>> THEN <<>>
  ELSE IF Head(s) = c THEN Filter(Tail(s), c)
  ELSE <<Head(s)>> \o Filter(Tail(s), c)

IsSpace(c) == c \in {" ", "\n", "\t"}

RECURSIVE TrimStart(_)
TrimStart(s) ==
  IF s # <<>> /\ IsSpace(Head(s)) THEN TrimStart(Tail(s)) ELSE s

RECURSIVE TrimEnd(_)
TrimEnd(s) ==
  IF s # <<>> /\ IsSpace(s[Len(s)]) THEN TrimEnd(SubSeq(s, 1, Len(s) - 1)) ELSE s

\* sgf.trim().replaceAll("\n", "").replaceAll("\t", "")
sgfCleanup(s) == Filter(Filter(TrimEnd(TrimStart(s)), "\n"), "\t")

\* s.split(sep): the segments between the separators, empty ones included.
RECURSIVE SplitFrom(_, _, _, _, _)
SplitFrom(s, sep, k, acc, cur) ==
  IF k > Len(s) THEN Append(acc, cur)
  ELSE IF s[k] = sep THEN SplitFrom(s, sep, k + 1, Append(acc, cur), <<>>)
  ELSE SplitFrom(s, sep, k + 1, acc, Append(cur, s[k]))

Split(s, sep) == SplitFrom(s, sep, 1, <<>>, <<>>)

RECURSIVE NonEmpty(_)
NonEmpty(ss) ==
  IF ss = <<>> THEN <<>>
  ELSE IF Head(ss) = <<>> THEN NonEmpty(Tail(ss))
  ELSE <<Head(ss)>> \o NonEmpty(Tail(ss))

\* The array helper first(): the element at index 0, undefined on an empty
\* array.
first(xs, undef) == IF xs = <<>> THEN undef ELSE xs[1]

notEmpty(xs) == xs # <<>>

(***************************************************************************)
(* Property maps: the entries in insertion order, each a key and a value  *)
(* that is a single string (list = FALSE, one element) or a list.          *)
(***************************************************************************)

Single(v) == [list |-> FALSE, vals |-> <<v>>]

List(vs) == [list |-> TRUE, vals |-> vs]

Entry(k, v) == [k |-> k, v |-> v]

IndexOf(m, key) ==
  IF \E j \in 1..Len(m) : m[j].k = key
  THEN CHOOSE j \in 1..Len(m) : m[j].k = key
  ELSE 0

\* JavaScript truthiness of a property value: every array is truthy, a string
\* is truthy when it is not empty.
Truthy(v) == v.list \/ v.vals[1] # <<>>

\* The property map as a set of entries: two maps are the same map when
\* these sets are equal.
MapOf(m) == {m[j] : j \in 1..Len(m)}

(***************************************************************************)
(* Tokenizer and node property parser                                      *)
(***************************************************************************)

RECURSIVE splitBracketsFrom(_, _, _, _)
splitBracketsFrom(s, k, split, cur) ==
  IF k > Len(s) THEN split
  ELSE IF s[k] = "[" THEN splitBracketsFrom(s, k + 1, Append(split, cur), <<"[">>)
  ELSE IF s[k] = "]" THEN splitBracketsFrom(s, k + 1, Append(split, cur), <<>>)
  ELSE splitBracketsFrom(s, k + 1, split, Append(cur, s[k]))

splitBrackets(s) == splitBracketsFrom(s, 1, <<>>, <<>>)

includes(c, ch) == \E j \in 1..Len(c) : c[j] = ch

\* nodeData[currentKey] = ... for one bracket value newDatum.
setDatum(nodeData, currentKey, newDatum) ==
  LET j == IndexOf(nodeData, currentKey) IN
  IF j # 0 /\ Truthy(nodeData[j].v)
  THEN IF ~nodeData[j].v.list
       THEN [nodeData EXCEPT ![j].v = List(<<nodeData[j].v.vals[1], newDatum>>)]
       ELSE [nodeData EXCEPT ![j].v = List(Append(nodeData[j].v.vals, newDatum))]
  ELSE IF j # 0
       THEN [nodeData EXCEPT ![j].v = Single(newDatum)]
       ELSE Append(nodeData, Entry(currentKey, Single(newDatum)))

RECURSIVE parseTokens(_, _, _, _)
parseTokens(splitData, k, currentKey, nodeData) ==
  IF k > Len(splitData) THEN nodeData
  ELSE IF includes(splitData[k], "[")
       THEN parseTokens(splitData, k + 1, currentKey,
                        setDatum(nodeData, currentKey, Tail(splitData[k])))
       ELSE parseTokens(splitData, k + 1, splitData[k], nodeData)

\* Defined on strings; on undefined the for-of of splitBrackets throws a
\* TypeError, which the callers model.
parseNodeData(nodeDataAsString) ==
  LET splitData == splitBrackets(nodeDataAsString) IN
  parseTokens(splitData, 1, first(splitData, Undefined), <<>>)

\* `${v}` of a property value: a string as it is, an array joined by ",".
ValueToString(v) == IF v.list THEN Join(v.vals, <<",">>) ELSE v.vals[1]

nodeDataToString(sgfProps) ==
  Cat([j \in 1..Len(sgfProps) |->
         sgfProps[j].k \o <<"[">> \o ValueToString(sgfProps[j].v) \o <<"]">>])

(***************************************************************************)
(* Nodes                                                                   *)
(***************************************************************************)

\* new SgfTree(data, children, parent, dataAsString).  neg1 is the array
\* property "-1" of children, which only shift can set.
SgfTree(data, children, parent, dataAsString) ==
  [data         |-> IF dataAsString # <<>> THEN parseNodeData(dataAsString) ELSE data,
   children     |-> children,
   parent       |-> parent,
   dataAsString |-> IF dataAsString = <<>> THEN nodeDataToString(data) ELSE dataAsString,
   neg1         |-> NoNode]

(***************************************************************************)
(* Node-chain expander                                                     *)
(***************************************************************************)

\* expandChain without the last statement, currentTree.children = children.
RECURSIVE expandChainNoReattach(_, _, _, _)
expandChainNoReattach(h, cur, remaining, children) ==
  IF remaining = <<>> THEN h
  ELSE LET new == Len(h) + 1
           h1  == Append(h, SgfTree(parseNodeData(Head(remaining)), <<>>, cur,
                                    Head(remaining)))
       IN expandChainNoReattach([h1 EXCEPT ![cur].children = <<new>>], new,
                                Tail(remaining), children)

\* for (const nodeDataAsString of remaniningNodes) { ... }
\* currentTree.children = children
RECURSIVE expandChain(_, _, _, _)
expandChain(h, cur, remaining, children) ==
  IF remaining = <<>> THEN [h EXCEPT ![cur].children = children]
  ELSE LET new == Len(h) + 1
           h1  == Append(h, SgfTree(parseNodeData(Head(remaining)), <<>>, cur,
                                    Head(remaining)))
       IN expandChain([h1 EXCEPT ![cur].children = <<new>>], new,
                      Tail(remaining), children)

parseBranch(h, tree) ==
  LET children      == h[tree].children
      nodesAsString == NonEmpty(Split(h[tree].dataAsString, ";"))
      h1 == [h EXCEPT ![tree].dataAsString = first(nodesAsString, Undefined)]
  IN expandChain(h1, tree, IF nodesAsString = <<>> THEN <<>> ELSE Tail(nodesAsString),
                 children)

(***************************************************************************)
(* Tree scanner: one step per character on a scanner state                 *)
(* [nodes, currentTree, currentString, pc].                                *)
(***************************************************************************)

ScanInit ==
  [nodes         |-> <<SgfTree(<<>>, <<>>, NoNode, <<>>)>>,
   currentTree   |-> 1,
   currentString |-> <<>>,
   pc            |-> "scan"]

\* case "("
openBranch(st) ==
  LET cur == st.currentTree
      new == Len(st.nodes) + 1
      h1  == [st.nodes EXCEPT ![cur].dataAsString = st.currentString]
      h2  == Append(h1, SgfTree(<<>>, <<>>, cur, <<>>))
  IN [st EXCEPT !.nodes = [h2 EXCEPT ![cur].children = Append(@, new)],
                !.currentTree = new,
                !.currentString = <<>>]

\* case ")"
closeBranch(st) ==
  LET cur == st.currentTree
      h1  == [st.nodes EXCEPT ![cur].dataAsString = st.currentString]
      h2  == parseBranch(h1, cur)
  IN IF h2[cur].dataAsString = Undefined
     THEN [st EXCEPT !.nodes = h2, !.pc = "TypeError"]
     ELSE LET h3 == [h2 EXCEPT ![cur].data = parseNodeData(h2[cur].dataAsString)]
              up == h3[cur].parent
          IN IF up = NoNode
             THEN [st EXCEPT !.nodes = h3, !.currentTree = NoNode, !.pc = "TypeError"]
             ELSE [st EXCEPT !.nodes = h3,
                             !.currentTree = up,
                             !.currentString = h3[up].dataAsString]

\* default
accumulate(st, char) == [st EXCEPT !.currentString = Append(@, char)]

scanChar(st, char) ==
  IF char = "(" THEN openBranch(st)
  ELSE IF char = ")" THEN closeBranch(st)
  ELSE accumulate(st, char)

RECURSIVE parseBranchesFrom(_, _, _)
parseBranchesFrom(st, text, k) ==
  IF st.pc = "TypeError" THEN st
  ELSE IF k > Len(text) THEN [st EXCEPT !.pc = "done"]
  ELSE parseBranchesFrom(scanChar(st, text[k]), text, k + 1)

parseBranches(text) == parseBranchesFrom(ScanInit, text, 1)

parseSgf(text) == parseBranches(sgfCleanup(text))

(***************************************************************************)
(* Serializer                                                              *)
(***************************************************************************)

Wrap(childText) == <<"(", ";">> \o childText \o <<")">>

\* toSgf() of node n, for a tree whose child slots all hold nodes (every
\* parsed tree): on a slot holding undefined c.toSgf() throws a TypeError.
RECURSIVE toSgf(_, _)
toSgf(h, n) ==
  LET ch == h[n].children IN
  IF h[n].parent = NoNode
  THEN Join([j \in 1..Len(ch) |-> Wrap(toSgf(h, ch[j]))], <<",">>)
  ELSE IF notEmpty(ch)
       THEN IF Len(ch) = 1
            THEN h[n].dataAsString \o <<";">> \o toSgf(h, first(ch, NoNode))
            ELSE h[n].dataAsString
                   \o Cat([j \in 1..Len(ch) |-> Wrap(toSgf(h, ch[j]))])
       ELSE h[n].dataAsString

RECURSIVE toJson(_, _)
toJson(h, n) ==
  [data     |-> h[n].data,
   children |-> [j \in 1..Len(h[n].children) |-> toJson(h, h[n].children[j])]]

\* The nodes owned by n: n and, top-down, the nodes in children arrays.
RECURSIVE Owned(_, _)
Owned(h, n) ==
  IF n = NoNode THEN {}
  ELSE {n} \cup UNION {Owned(h, h[n].children[j]) : j \in 1..Len(h[n].children)}

(***************************************************************************)
(* Input texts                                                             *)
(***************************************************************************)

\* Longest node sequence, most variations after a node sequence, most
\* top-level game trees.
MaxMoves == 2

MaxVars == 2

MaxTop == 2

\* The node texts the input sequences are made of: B[a], W[b], an empty
\* node, AB[a][b], C[].
MoveList ==
  << <<"B", "[", "a", "]">>,
     <<"W", "[", "b", "]">>,
     <<>>,
     <<"A", "B", "[", "a", "]", "[", "b", "]">>,
     <<"C", "[", "]">> >>

NMoves == Len(MoveList)

Rot(k, n) == ((k - 1) % n) + 1

\* The n consecutive moves of MoveList from offset o (wrapping around).
SeqMoves(o, n) == [j \in 1..n |-> MoveList[Rot(o + j - 1, NMoves)]]

\* NodeSeq: ";" m1 ";" m2 ...
SeqText(o, n) == Cat([j \in 1..n |-> <<";">> \o SeqMoves(o, n)[j]])

NLeaves == NMoves * MaxMoves

\* The l-th game tree without variations.
LeafMoves(l) == SeqMoves(Rot(l, NMoves), ((l - 1) \div NMoves) + 1)

LeafText(l) == <<"(">> \o Cat([j \in 1..Len(LeafMoves(l)) |-> <<";">> \o LeafMoves(l)[j]])
                 \o <<")">>

\* k consecutive variations from leaf lo (wrapping around).
VarsText(lo, k) == Cat([j \in 1..k |-> LeafText(Rot(lo + j - 1, NLeaves))])

\* "(" NodeSeq GameTree* ")"
TreeText(o, n, lo, k) == <<"(">> \o SeqText(o, n) \o VarsText(lo, k) \o <<")">>

TreeParams ==
  {p \in [o : 1..NMoves, n : 1..MaxMoves, lo : 1..NLeaves, k : 0..MaxVars] :
     p.k = 0 => p.lo = 1}

TopParams == [lo : 1..NLeaves, k : 2..MaxTop]

\* Texts outside the two families: the empty text, "()", a branch holding
\* only variations, and variations nested three deep.
ExtraTexts ==
  { <<>>,
    <<"(", ")">>,
    <<"(", ";">> \o LeafText(1) \o LeafText(2) \o <<")">>,
    <<"(", ";">> \o MoveList[1] \o TreeText(2, 1, 4, 2) \o TreeText(5, 2, 6, 1) \o <<")">>
      \o LeafText(4) }

Texts ==
  {TreeText(p.o, p.n, p.lo, p.k) : p \in TreeParams}
    \cup {VarsText(p.lo, p.k) : p \in TopParams}
    \cup ExtraTexts

\* The same text laid out over several lines.
Layout(t) ==
  <<"\n", " ">>
    \o Cat([j \in 1..Len(t) |-> IF t[j] = ")" THEN <<")", "\n", "\t">> ELSE <<t[j]>>])
    \o <<" ">>

RawTexts == Texts \cup {Layout(t) : t \in Texts}

(***************************************************************************)
(* parseSgf, one scanner step per action                                   *)
(***************************************************************************)

NoOp == [op |-> "none", self |-> NoNode, down |-> 0, right |-> 0, left |-> FALSE,
         tree |-> NoNode, parentRoot |-> NoNode]

St == [nodes |-> nodes, currentTree |-> currentTree,
       currentString |-> currentString, pc |-> pc]

Becomes(st) ==
  /\ nodes' = st.nodes
  /\ currentTree' = st.currentTree
  /\ currentString' = st.currentString
  /\ pc' = st.pc

Init ==
  /\ sgf \in {sgfCleanup(raw) : raw \in RawTexts}
  /\ i = 1
  /\ nodes = ScanInit.nodes
  /\ currentTree = ScanInit.currentTree
  /\ currentString = ScanInit.currentString
  /\ pc = ScanInit.pc
  /\ lastOp = NoOp
  /\ edits = 0

OpenBranch ==
  /\ pc = "scan" /\ i <= Len(sgf) /\ sgf[i] = "("
  /\ Becomes(openBranch(St))
  /\ i' = i + 1
  /\ UNCHANGED <<sgf, lastOp, edits>>

CloseBranch ==
  /\ pc = "scan" /\ i <= Len(sgf) /\ sgf[i] = ")"
  /\ Becomes(closeBranch(St))
  /\ i' = i + 1
  /\ UNCHANGED <<sgf, lastOp, edits>>

Accumulate ==
  /\ pc = "scan" /\ i <= Len(sgf) /\ sgf[i] \notin {"(", ")"}
  /\ Becomes(accumulate(St, sgf[i]))
  /\ i' = i + 1
  /\ UNCHANGED <<sgf, lastOp, edits>>

Return ==
  /\ pc = "scan" /\ i > Len(sgf)
  /\ pc' = "done"
  /\ UNCHANGED <<sgf, i, nodes, currentTree, currentString, lastOp, edits>>

Next == OpenBranch \/ CloseBranch \/ Accumulate \/ Return

Spec == Init /\ [][Next]_vars

\* The scanner steps are parseBranches, cut into steps.
ScanIsParseBranches ==
  pc \in {"done", "TypeError"} => St = parseBranches(sgf)

(***************************************************************************)
(* Tree editor                                                             *)
(***************************************************************************)

\* What getDownToParent gives when currentRoot.children is read on
\* undefined inside its loop: a TypeError.
Thrown == -1

\* for (i = 0; i < down; i++) currentRoot = currentRoot.children.first()
RECURSIVE getDownToParent(_, _, _)
getDownToParent(h, self, down) ==
  IF down = 0 THEN self
  ELSE IF self = NoNode THEN Thrown
  ELSE getDownToParent(h, first(h[self].children, NoNode), down - 1)

Min(a, b) == IF a < b THEN a ELSE b

Max(a, b) == IF a > b THEN a ELSE b

\* array.splice(start, deleteCount, ...items)
splice(array, start, deleteCount, items) ==
  LET len  == Len(array)
      from == IF start < 0 THEN Max(len + start, 0) ELSE Min(start, len)
      dc   == Min(Max(deleteCount, 0), len - from)
  IN SubSeq(array, 1, from) \o items \o SubSeq(array, from + dc + 1, len)

\* node.children[j] for a JavaScript index j >= -1: undefined out of range.
childAt(node, j) ==
  IF j = -1 THEN node.neg1
  ELSE IF j >= 0 /\ j < Len(node.children) THEN node.children[j + 1]
  ELSE NoNode

\* node.children[j] = v for -1 <= j <= length: index -1 is a property of the
\* array and no element, index length grows the array by one.
setChildAt(node, j, v) ==
  IF j = -1 THEN [node EXCEPT !.neg1 = v]
  ELSE IF j < Len(node.children) THEN [node EXCEPT !.children[j + 1] = v]
  ELSE [node EXCEPT !.children = Append(@, v)]

\* add overwriting the child at the index: splice(right - 1, 1, tree).
addOverwrite(h, self, tree, down, right) ==
  LET parentRoot == getDownToParent(h, self, down) IN
  IF parentRoot = Thrown THEN h
  ELSE IF parentRoot = NoNode THEN [h EXCEPT ![tree].parent = NoNode]
  ELSE LET h1 == [h EXCEPT ![tree].parent = parentRoot] IN
       [h1 EXCEPT ![parentRoot].children = splice(@, right - 1, 1, <<tree>>)]

add(h, self, tree, down, right) ==
  LET parentRoot == getDownToParent(h, self, down) IN
  IF parentRoot = Thrown THEN h
  ELSE IF parentRoot = NoNode THEN [h EXCEPT ![tree].parent = NoNode]
  ELSE LET h1 == [h EXCEPT ![tree].parent = parentRoot] IN
       [h1 EXCEPT ![parentRoot].children = splice(@, right - 1, 0, <<tree>>)]

\* remove taking right for the index: splice(right, 1).
removeOffByOne(h, self, down, right) ==
  LET parentRoot == getDownToParent(h, self, down) IN
  IF parentRoot \in {Thrown, NoNode} THEN h
  ELSE IF right # 0
       THEN [h EXCEPT ![parentRoot].children = splice(@, right, 1, <<>>)]
       ELSE h

remove(h, self, down, right) ==
  LET parentRoot == getDownToParent(h, self, down) IN
  IF parentRoot \in {Thrown, NoNode} THEN h
  ELSE IF right # 0
       THEN [h EXCEPT ![parentRoot].children = splice(@, right - 1, 1, <<>>)]
       ELSE h

\* shift reading the neighbour after it has been overwritten.
shiftNodeNoTemp(node, right, left) ==
  LET child == childAt(node, right - 1) IN
  IF left
  THEN LET n1 == setChildAt(node, right - 2, child) IN
       setChildAt(n1, right - 1, childAt(n1, right - 2))
  ELSE LET n1 == setChildAt(node, right, child) IN
       setChildAt(n1, right - 1, childAt(n1, right))

\* The exchange shift makes in parentRoot.children.
shiftNode(node, right, left) ==
  LET child == childAt(node, right - 1) IN
  IF left
  THEN LET leftChild == childAt(node, right - 2) IN
       setChildAt(setChildAt(node, right - 2, child), right - 1, leftChild)
  ELSE LET righChild == childAt(node, right) IN
       setChildAt(setChildAt(node, right, child), right - 1, righChild)

shift(h, self, down, right, left) ==
  LET parentRoot == getDownToParent(h, self, down) IN
  IF parentRoot \in {Thrown, NoNode} THEN h
  ELSE [h EXCEPT ![parentRoot] = shiftNode(@, right, left)]

(***************************************************************************)
(* Editing a parsed tree                                                   *)
(***************************************************************************)

\* Most editing steps, and the deepest descent asked of getDownToParent.
MaxEdits == 3

MaxDown == 2

\* (;B[a];W[b])   (;B[a](;W[b])(;C[]))   (;W[b];B[a](;AB[a][b])(;C[])(;B[a]))
EditTexts ==
  { TreeText(1, 2, 1, 0),
    <<"(", ";">> \o MoveList[1] \o LeafText(2) \o LeafText(5) \o <<")">>,
    <<"(", ";">> \o MoveList[2] \o <<";">> \o MoveList[1]
      \o LeafText(4) \o LeafText(5) \o LeafText(1) \o <<")">> }

\* The property maps nodes are constructed from: {}, {B: "a"},
\* {AB: ["a", "b"]}, {C: "", W: "b"}.
PropMaps ==
  { <<>>,
    <<Entry(<<"B">>, Single(<<"a">>))>>,
    <<Entry(<<"A", "B">>, List(<< <<"a">>, <<"b">> >>))>>,
    <<Entry(<<"C">>, Single(<<>>)), Entry(<<"W">>, Single(<<"b">>))>> }

\* The constructed nodes that no add has been given yet.
Fresh ==
  {n \in 1..Len(nodes) :
     n # currentTree /\ nodes[n].parent = NoNode /\ n \notin Owned(nodes, currentTree)}

\* The sibling positions tried at parentRoot: lo .. length + hi.
Rights(parentRoot, lo, hi) ==
  IF parentRoot \in {Thrown, NoNode} THEN {1}
  ELSE lo..(Len(nodes[parentRoot].children) + hi)

Op(op, self, down, right, left, tree) ==
  LET parentRoot == getDownToParent(nodes, self, down) IN
  [op |-> IF parentRoot \in {Thrown, NoNode} THEN "TypeError" ELSE op,
   self |-> self, down |-> down, right |-> right, left |-> left, tree |-> tree,
   parentRoot |-> parentRoot]

InitEdit ==
  \E t \in EditTexts :
    LET st == parseSgf(t) IN
    /\ sgf = sgfCleanup(t)
    /\ i = Len(sgf) + 1
    /\ nodes = st.nodes
    /\ currentTree = st.currentTree
    /\ currentString = st.currentString
    /\ pc = st.pc
    /\ lastOp = NoOp
    /\ edits = 0

\* new SgfTree(data)
Construct ==
  /\ pc = "done" /\ edits < MaxEdits /\ Fresh = {}
  /\ \E data \in PropMaps :
       /\ nodes' = Append(nodes, SgfTree(data, <<>>, NoNode, <<>>))
       /\ lastOp' = [NoOp EXCEPT !.op = "new", !.tree = Len(nodes) + 1]
  /\ edits' = edits + 1
  /\ UNCHANGED <<sgf, i, currentTree, currentString, pc>>

Add ==
  /\ pc = "done" /\ edits < MaxEdits
  /\ \E self \in Owned(nodes, currentTree), tree \in Fresh, down \in 0..MaxDown :
       \E right \in Rights(getDownToParent(nodes, self, down), 1, 1) :
          /\ nodes' = add(nodes, self, tree, down, right)
          /\ lastOp' = Op("add", self, down, right, FALSE, tree)
  /\ edits' = edits + 1
  /\ UNCHANGED <<sgf, i, currentTree, currentString, pc>>

Remove ==
  /\ pc = "done" /\ edits < MaxEdits
  /\ \E self \in Owned(nodes, currentTree), down \in 0..MaxDown :
       \E right \in Rights(getDownToParent(nodes, self, down), 0, 0) :
          /\ nodes' = remove(nodes, self, down, right)
          /\ lastOp' = Op("remove", self, down, right, FALSE, NoNode)
  /\ edits' = edits + 1
  /\ UNCHANGED <<sgf, i, currentTree, currentString, pc>>

Shift ==
  /\ pc = "done" /\ edits < MaxEdits
  /\ \E self \in Owned(nodes, currentTree), down \in 0..MaxDown, left \in BOOLEAN :
       \E right \in Rights(getDownToParent(nodes, self, down), 1, 0) :
          /\ nodes' = shift(nodes, self, down, right, left)
          /\ lastOp' = Op("shift", self, down, right, left, NoNode)
  /\ edits' = edits + 1
  /\ UNCHANGED <<sgf, i, currentTree, currentString, pc>>

NextEdit == Construct \/ Add \/ Remove \/ Shift

SpecEdit == InitEdit /\ [][NextEdit]_vars

(***************************************************************************)
(* Properties                                                              *)
(***************************************************************************)

Root == currentTree

\* The node the first-child path of length d from s ends at, NoNode when the
\* path does not exist.
RECURSIVE FirstChildPath(_, _, _)
FirstChildPath(h, s, d) ==
  IF d = 0 THEN s
  ELSE IF s = NoNode \/ h[s].children = <<>> THEN NoNode
  ELSE FirstChildPath(h, h[s].children[1], d - 1)

\* Node n holds the move text m.
Holds(h, n, m) ==
  /\ n # NoNode
  /\ h[n].dataAsString = m
  /\ MapOf(h[n].data) = MapOf(parseNodeData(m))

\* The texts of the section 6 grammar among the inputs: all but the empty
\* text and "()".
WellFormed(t) == t \notin {<<>>, <<"(", ")">>}

Finished == pc \in {"done", "TypeError"}

\* C1: for every well-formed text s, parseSgf(s) completes and
\* parseSgf(parseSgf(s).toSgf()) equals parseSgf(s) node for node (children
\* count and order, property map).
C1_RoundTrip ==
  (Finished /\ WellFormed(sgf)) =>
     /\ pc = "done"
     /\ LET again == parseSgf(toSgf(nodes, Root)) IN
        /\ again.pc = "done"
        /\ toJson(again.nodes, again.currentTree) = toJson(nodes, Root)

\* The part of C1 the code keeps: a text whose parse completes is
\* re-parse-stable.
RoundTripWhenParsed ==
  pc = "done" =>
     LET again == parseSgf(toSgf(nodes, Root)) IN
     /\ again.pc = "done"
     /\ toJson(again.nodes, again.currentTree) = toJson(nodes, Root)

\* The keys and the value lists of the input texts.
Keys == { <<"B">>, <<"W">>, <<"C">>, <<"A", "B">> }

ValueLists == { << <<"a">> >>, << <<"b">> >>, << <<>> >>, << <<"a">>, <<"b">> >> }

PropText(k, vs) == k \o Cat([j \in 1..Len(vs) |-> <<"[">> \o vs[j] \o <<"]">>])

\* C2: a node whose property text is KEY[v1]...[vn] has a property map with
\* exactly the key KEY, holding the string v1 when n = 1 and the ordered
\* list [v1, ..., vn] when n >= 2.
C2_MultiValue ==
  \A n \in 1..Len(nodes) : \A k \in Keys, vs \in ValueLists :
     nodes[n].dataAsString = PropText(k, vs) =>
        MapOf(nodes[n].data)
          = {Entry(k, IF Len(vs) = 1 THEN Single(vs[1]) ELSE List(vs))}

\* C3: toSgf by node shape: the root gives its children's "(;" text ")"
\* groups with no separator between them; a non-root node gives rawText,
\* then ";" and the child's text (one child) or the wrapped children (two or
\* more), or nothing more (a leaf).
C3_ToSgfShape ==
  pc = "done" =>
    \A n \in Owned(nodes, Root) :
       LET ch     == nodes[n].children
           groups == Cat([j \in 1..Len(ch) |-> Wrap(toSgf(nodes, ch[j]))])
       IN toSgf(nodes, n) =
            IF n = Root THEN groups
            ELSE IF Len(ch) = 0 THEN nodes[n].dataAsString
            ELSE IF Len(ch) = 1
                 THEN nodes[n].dataAsString \o <<";">> \o toSgf(nodes, ch[1])
                 ELSE nodes[n].dataAsString \o groups

\* The one-game-tree texts C4 is about: every move of the node sequence is
\* non-empty and every variation has a move to be the head of.
VariationMoves(p, j) == NonEmpty(LeafMoves(Rot(p.lo + j - 1, NLeaves)))

C4Covered(p) ==
  /\ \A j \in 1..p.n : SeqMoves(p.o, p.n)[j] # <<>>
  /\ \A j \in 1..p.k : VariationMoves(p, j) # <<>>

C4Shape(p) ==
  LET m       == SeqMoves(p.o, p.n)
      node(j) == FirstChildPath(nodes, Root, j)
      last    == node(p.n)
  IN /\ nodes[Root].parent = NoNode
     /\ Len(nodes[Root].children) = 1
     /\ \A j \in 1..p.n : Holds(nodes, node(j), m[j])
     /\ \A j \in 1..(p.n - 1) : Len(nodes[node(j)].children) = 1
     /\ Len(nodes[last].children) = p.k
     /\ \A j \in 1..p.k :
          /\ Holds(nodes, nodes[last].children[j], Head(VariationMoves(p, j)))
          /\ Len(VariationMoves(p, j)) = 1
               => nodes[nodes[last].children[j]].children = <<>>

C9_EmptySequence ==
  [][ (/\ pc = "scan" /\ i <= Len(sgf) /\ sgf[i] = ")"
       /\ NonEmpty(Split(currentString, ";")) = <<>>)
      => /\ pc' = "scan"
         /\ nodes'[currentTree].dataAsString = <<>>
         /\ nodes'[currentTree].data = <<>>
         /\ nodes'[currentTree].children = nodes[currentTree].children ]_vars

\* Every owned child's parent is its owner, and only the root has no parent.
ParentsAgree(h, root) ==
  \A n \in Owned(h, root) :
     /\ \A j \in 1..Len(h[n].children) : h[h[n].children[j]].parent = n
     /\ h[n].parent = NoNode <=> n = root

\* C10: in every tree parseSgf returns, each child's parent back-reference
\* is the node that owns it, and the root alone has no parent.
C10_ParentsAgree == pc = "done" => ParentsAgree(nodes, Root)

\* C7: rawText and properties of every node represent the same data: parsing
\* the rawText gives the properties.
C7_TextMatchesProperties ==
  \A n \in 1..Len(nodes) :
     MapOf(parseNodeData(nodes[n].dataAsString)) = MapOf(nodes[n].data)

\* The step is the edit lastOp' tells, made on a parent that exists.
Edited(op) == edits' = edits + 1 /\ lastOp'.op = op

Before == nodes[lastOp'.parentRoot].children

After == nodes'[lastOp'.parentRoot].children

\* C5: add(node, {down, right}) with 1 <= right <= length + 1 makes node the
\* child at index right - 1 of the parent P the path ends at, with P as its
\* parent; P has one more child, the children before the index keep their
\* place and the others move one to the right; P's rawText and properties
\* stay.
C5_Add ==
  [][ (/\ Edited("add")
       /\ lastOp'.right >= 1 /\ lastOp'.right <= Len(Before) + 1)
      => LET P == lastOp'.parentRoot
             r == lastOp'.right
         IN /\ P = FirstChildPath(nodes, lastOp'.self, lastOp'.down)
            /\ After[r] = lastOp'.tree
            /\ nodes'[lastOp'.tree].parent = P
            /\ Len(After) = Len(Before) + 1
            /\ \A j \in 1..(r - 1) : After[j] = Before[j]
            /\ \A j \in r..Len(Before) : After[j + 1] = Before[j]
            /\ nodes'[P].dataAsString = nodes[P].dataAsString
            /\ nodes'[P].data = nodes[P].data ]_vars

\* On (;B[a];W[b]), add(new, {down: 1, right: 2}) on the root has made the
\* new node the second child of the B[a] node.
C5_Witness ==
  /\ sgf = TreeText(1, 2, 1, 0)
  /\ lastOp.op = "add" /\ lastOp.self = Root /\ lastOp.down = 1 /\ lastOp.right = 2
  /\ nodes[lastOp.parentRoot].dataAsString = MoveList[1]
  /\ Len(nodes[lastOp.parentRoot].children) = 2
  /\ nodes[lastOp.parentRoot].children[2] = lastOp.tree

\* C6: remove({down, right}) with 1 <= right <= length deletes the child at
\* index right - 1 alone and keeps the others in order; with right = 0 it
\* changes nothing.
C6_Remove ==
  [][ Edited("remove")
      => LET r == lastOp'.right IN
         /\ (r >= 1 /\ r <= Len(Before)) =>
               /\ Len(After) = Len(Before) - 1
               /\ \A j \in 1..(r - 1) : After[j] = Before[j]
               /\ \A j \in r..Len(After) : After[j] = Before[j + 1]
               /\ \A n \in 1..Len(nodes) :
                    n # lastOp'.parentRoot => nodes'[n] = nodes[n]
         /\ r = 0 => nodes' = nodes ]_vars

\* On (;B[a](;W[b])(;C[])), remove({down: 1, right: 1}) on the root has left
\* C[] as the only child of the B[a] node.
C6_Witness ==
  /\ sgf = <<"(", ";">> \o MoveList[1] \o LeafText(2) \o LeafText(5) \o <<")">>
  /\ lastOp.op = "remove" /\ lastOp.self = Root /\ lastOp.down = 1 /\ lastOp.right = 1
  /\ nodes[lastOp.parentRoot].dataAsString = MoveList[1]
  /\ Len(nodes[lastOp.parentRoot].children) = 1
  /\ nodes[nodes[lastOp.parentRoot].children[1]].dataAsString = MoveList[5]

\* The children after are the children before with the slots a and b
\* exchanged: a permutation of the same length.
Exchanged(before, after, a, b) ==
  /\ Len(after) = Len(before)
  /\ after[a] = before[b] /\ after[b] = before[a]
  /\ \A j \in 1..Len(before) : j \notin {a, b} => after[j] = before[j]

\* C8 as claimed: for every right in 1..length, shift exchanges the child at
\* index right - 1 with its left neighbour (towardLeft) or its right
\* neighbour, and the children stay a permutation of what they were, with
\* no empty slot.
C8_ShiftAnyPosition ==
  [][ (Edited("shift") /\ lastOp'.right >= 1 /\ lastOp'.right <= Len(Before))
      => LET r == lastOp'.right
             o == IF lastOp'.left THEN r - 1 ELSE r + 1
         IN /\ o \in 1..Len(Before)
            /\ Exchanged(Before, After, r, o)
            /\ (\A j \in 1..Len(Before) : Before[j] # NoNode)
                  => (\A j \in 1..Len(After) : After[j] # NoNode) ]_vars

\* C8 amended: the same for the positions that have that neighbour, right in
\* 2..length toward the left and 1..length - 1 toward the right.
C8_ShiftWithNeighbour ==
  [][ (/\ Edited("shift")
       /\ lastOp'.left => (lastOp'.right >= 2 /\ lastOp'.right <= Len(Before))
       /\ ~lastOp'.left => (lastOp'.right >= 1 /\ lastOp'.right <= Len(Before) - 1))
      => LET r == lastOp'.right
             o == IF lastOp'.left THEN r - 1 ELSE r + 1
         IN Exchanged(Before, After, r, o) ]_vars

\* On (;B[a](;W[b])(;C[])), shift({down: 1, right: 2}, true) on the root has
\* exchanged the two variations.
C8_Witness ==
  /\ sgf = <<"(", ";">> \o MoveList[1] \o LeafText(2) \o LeafText(5) \o <<")">>
  /\ edits = 1
  /\ lastOp.op = "shift" /\ lastOp.self = Root /\ lastOp.down = 1
  /\ lastOp.right = 2 /\ lastOp.left
  /\ Len(nodes[lastOp.parentRoot].children) = 2
  /\ nodes[nodes[lastOp.parentRoot].children[1]].dataAsString = MoveList[5]
  /\ nodes[nodes[lastOp.parentRoot].children[2]].dataAsString = MoveList[2]

====
